---------------------------- MODULE Spec2Model ----------------------------
(***************************************************************************)
(* Workflow extraction: graph index, identifier synthesis, action/gateway  *)
(* extraction (graph_builder.py), join matching, path enumeration and      *)
(* execution-state building (path_enumeration.py).                         *)
(*                                                                         *)
(* Strings are sequences of one-character strings, so that slugging,       *)
(* suffixing and comparison of identifiers are computed, not assumed.      *)
(***************************************************************************)
EXTENDS Integers, Sequences, FiniteSets, TLC

VARIABLES record, pc, nodes, outgoing, incoming, rid_to_id, actions, gateways,
          enum, execution_states, join_query, hash_seed, rerun, metrics

vars == <<record, pc, nodes, outgoing, incoming, rid_to_id, actions, gateways,
          enum, execution_states, join_query, hash_seed, rerun, metrics>>

(***************************************************************************)
(* Bounds of the input families.                                           *)
(***************************************************************************)
MaxEdits == 2
MaxWidth == 4
MaxLayers == 3
MaxTextNodes == 3
MaxFan == 3

(***************************************************************************)
(* Program constants.                                                      *)
(***************************************************************************)
MAX_PATHS == 60
MAX_LOOP_ITERATIONS == 2

(***************************************************************************)
(* Characters and strings.                                                 *)
(***************************************************************************)
Digits == <<"0", "1", "2", "3", "4", "5", "6", "7", "8", "9">>
Uppers == <<"A", "B", "C", "D", "E", "F", "G", "H", "I", "J", "K", "L", "M",
            "N", "O", "P", "Q", "R", "S", "T", "U", "V", "W", "X", "Y", "Z">>
Lowers == <<"a", "b", "c", "d", "e", "f", "g", "h", "i", "j", "k", "l", "m",
            "n", "o", "p", "q", "r", "s", "t", "u", "v", "w", "x", "y", "z">>

Range(s) == {s[i] : i \in 1..Len(s)}

IndexIn(s, x) == CHOOSE i \in 1..Len(s) : s[i] = x

\* ord(c) for the characters used: Python compares strings by code point
CodePoint(c) ==
    IF c \in Range(Digits) THEN 47 + IndexIn(Digits, c)
    ELSE IF c \in Range(Uppers) THEN 64 + IndexIn(Uppers, c)
    ELSE IF c \in Range(Lowers) THEN 96 + IndexIn(Lowers, c)
    ELSE IF c = " " THEN 32
    ELSE IF c = "!" THEN 33
    ELSE IF c = "'" THEN 39
    ELSE IF c = "-" THEN 45
    ELSE IF c = "_" THEN 95
    ELSE 0

\* str.isspace / str.isalnum / str.lower, one character
IsSpace(c) == c = " "
IsAlnum(c) == c \in Range(Digits) \cup Range(Uppers) \cup Range(Lowers)
LowerChar(c) == IF c \in Range(Uppers) THEN Lowers[IndexIn(Uppers, c)] ELSE c

RECURSIVE LStrip(_)
LStrip(s) == IF s # <<>> /\ IsSpace(Head(s)) THEN LStrip(Tail(s)) ELSE s

RECURSIVE RStrip(_)
RStrip(s) ==
    IF s # <<>> /\ IsSpace(s[Len(s)]) THEN RStrip(SubSeq(s, 1, Len(s) - 1)) ELSE s

\* str.strip()
Strip(s) == RStrip(LStrip(s))

\* str(n) for n >= 0
RECURSIVE Dec(_)
Dec(n) == IF n < 10 THEN <<Digits[n + 1]>> ELSE Dec(n \div 10) \o <<Digits[(n % 10) + 1]>>

\* a < b for strings (lexicographic by code point)
RECURSIVE StrLess(_, _)
StrLess(a, b) ==
    IF b = <<>> THEN FALSE
    ELSE IF a = <<>> THEN TRUE
    ELSE IF CodePoint(Head(a)) # CodePoint(Head(b))
         THEN CodePoint(Head(a)) < CodePoint(Head(b))
    ELSE StrLess(Tail(a), Tail(b))

\* the concatenation of a sequence of sequences
RECURSIVE Concat(_)
Concat(seqs) == IF seqs = <<>> THEN <<>> ELSE Head(seqs) \o Concat(Tail(seqs))

\* None
NoneVal == <<"None">>

(***************************************************************************)
(* Input records.  A resource id is "sid-<n>".                             *)
(***************************************************************************)
Rid(i) == <<"s", "i", "d", "-">> \o Dec(i)

Node(i, type, text) == [resourceId |-> Rid(i), type |-> type, NodeText |-> text]
Edge(i, j, cond) == [src |-> Rid(i), tgt |-> Rid(j), condition |-> cond]

\* Family 1: a split/join workflow and every record at most MaxEdits edits away
\*   1 start, 2 split S, 3 a, 4 b, 5 join J, 6 d, 7 end, 8 second end
BaseNodes ==
    << Node(1, "StartNode", <<>>), Node(2, "AND", <<>>),
       Node(3, "Activity", <<"a">>), Node(4, "Activity", <<"b">>),
       Node(5, "AND", <<>>), Node(6, "Activity", <<"d">>),
       Node(7, "EndNode", <<>>), Node(8, "EndNode", <<>>) >>

BaseEdges ==
    << Edge(1, 2, <<>>), Edge(2, 3, <<"p">>), Edge(2, 4, <<"q">>),
       Edge(3, 5, <<>>), Edge(4, 5, <<>>), Edge(5, 6, <<>>), Edge(6, 7, <<>>) >>

Retype(i, type, text) == [op |-> "node", i |-> i, type |-> type, text |-> text]
Drop(i, j) == [op |-> "del", src |-> Rid(i), tgt |-> Rid(j)]
Add(i, j, cond) == [op |-> "add", edge |-> Edge(i, j, cond)]

Edits ==
    << Retype(1, "StartNode", <<"g", "o">>),
       Retype(2, "XOR", <<>>),
       Retype(2, "OR", <<>>),
       Retype(3, "Activity", <<>>),
       Retype(3, "AND", <<>>),
       Retype(3, "XOR", <<>>),
       Retype(4, "Activity", <<"A">>),
       Retype(5, "XOR", <<>>),
       Retype(5, "OR", <<>>),
       Retype(5, "Activity", <<"j">>),
       Retype(6, "XOR", <<>>),
       Retype(7, "EndNode", <<"d", "o", "n", "e">>),
       Drop(4, 5),
       Add(6, 3, <<>>),
       Add(6, 2, <<>>),
       Add(2, 5, <<"r">>),
       Add(3, 8, <<>>),
       Add(4, 7, <<>>),
       Add(5, 1, <<>>),
       Add(2, 9, <<>>),
       Add(9, 5, <<>>),
       Add(3, 5, <<"t">>),
       Add(4, 2, <<>>),
       Add(6, 5, <<>>),
       Add(3, 4, <<>>) >>

RECURSIVE SubsetsUpTo(_, _)
SubsetsUpTo(S, k) ==
    IF k = 0 THEN {{}}
    ELSE LET P == SubsetsUpTo(S, k - 1)
         IN  P \cup {s \cup {x} : s \in P, x \in S}

RECURSIVE ApplyEdits(_, _, _)
ApplyEdits(rec, es, i) ==
    IF i > Len(Edits) THEN rec
    ELSE IF i \notin es THEN ApplyEdits(rec, es, i + 1)
    ELSE LET e == Edits[i]
             Keep(x) == ~(x.src = e.src /\ x.tgt = e.tgt)
             next ==
               CASE e.op = "node" ->
                      [rec EXCEPT !.step_nodes[e.i] = Node(e.i, e.type, e.text)]
                 [] e.op = "del" ->
                      [rec EXCEPT !.SequenceFlow = SelectSeq(@, Keep)]
                 [] e.op = "add" ->
                      [rec EXCEPT !.SequenceFlow = Append(@, e.edge)]
         IN  ApplyEdits(next, es, i + 1)

EditRecords ==
    { ApplyEdits([step_nodes |-> BaseNodes, SequenceFlow |-> BaseEdges], es, 1) :
        es \in SubsetsUpTo(1..Len(Edits), MaxEdits) }

\* Family 2: a chain of l exclusive splits of degree w: start, then l layers of
\* an exclusive gateway and its w activities, then an end (w^l distinct runs)
LadderGate(w, l) == 2 + (l - 1) * (w + 1)
LadderLayer(w, l) ==
    [ step_nodes |->
        <<Node(LadderGate(w, l), "XOR", <<>>)>> \o
        [k \in 1..w |-> Node(LadderGate(w, l) + k, "Activity", <<Lowers[l], Lowers[k]>>)],
      SequenceFlow |->
        [k \in 1..w |-> Edge(LadderGate(w, l), LadderGate(w, l) + k, <<Lowers[k]>>)] \o
        [k \in 1..w |-> Edge(LadderGate(w, l) + k, LadderGate(w, l + 1), <<>>)] ]
LadderRecord(w, l) ==
    [ step_nodes |->
        <<Node(1, "StartNode", <<>>)>> \o
        Concat([i \in 1..l |-> LadderLayer(w, i).step_nodes]) \o
        <<Node(LadderGate(w, l + 1), "EndNode", <<>>)>>,
      SequenceFlow |->
        <<Edge(1, 2, <<>>)>> \o Concat([i \in 1..l |-> LadderLayer(w, i).SequenceFlow]) ]

LadderRecords == {LadderRecord(w, l) : w \in 1..MaxWidth, l \in 1..MaxLayers}

\* Family 3: a chain start -> n1 -> ... -> nk -> end whose node texts vary
Texts ==
    { <<>>, <<" ">>, <<"X">>, <<"x">>, <<"X", " ", "2">>, <<"!">>, <<" ", "X", "'", "s">> }

TextRecord(ts) ==
    [ step_nodes |->
        <<Node(1, "StartNode", <<>>)>> \o
        [n \in 1..Len(ts) |-> Node(n + 1, "Activity", ts[n])] \o
        <<Node(Len(ts) + 2, "EndNode", <<>>)>>,
      SequenceFlow |-> [n \in 1..(Len(ts) + 1) |-> Edge(n, n + 1, <<>>)] ]

TextRecords ==
    UNION { {TextRecord(ts) : ts \in [1..k -> Texts]} : k \in 1..MaxTextNodes }

\* Family 4: start -> action s -> exclusive gateway with k branches, each to a
\* node of one of FanKinds; an activity or gateway branch goes on to the end
FanKinds == {"Activity", "EndNode", "NamedEnd", "XOR"}

FanNode(i, kind) ==
    CASE kind = "Activity" -> Node(i + 3, "Activity", <<Lowers[i]>>)
      [] kind = "EndNode" -> Node(i + 3, "EndNode", <<>>)
      [] kind = "NamedEnd" -> Node(i + 3, "EndNode", <<"e", Lowers[i]>>)
      [] kind = "XOR" -> Node(i + 3, "XOR", <<>>)

FanExit(ks, i) ==
    IF ks[i] \in {"Activity", "XOR"} THEN <<Edge(i + 3, Len(ks) + 4, <<>>)>> ELSE <<>>

FanRecord(ks) ==
    [ step_nodes |->
        <<Node(1, "StartNode", <<>>), Node(2, "Activity", <<"s">>), Node(3, "XOR", <<>>)>> \o
        [i \in 1..Len(ks) |-> FanNode(i, ks[i])] \o
        <<Node(Len(ks) + 4, "EndNode", <<>>)>>,
      SequenceFlow |->
        <<Edge(1, 2, <<>>), Edge(2, 3, <<>>)>> \o
        [i \in 1..Len(ks) |-> Edge(3, i + 3, <<Lowers[i]>>)] \o
        Concat([i \in 1..Len(ks) |-> FanExit(ks, i)]) ]

FanRecords == UNION { {FanRecord(ks) : ks \in [1..k -> FanKinds]} : k \in 1..MaxFan }

\* Family 5: start -> t1 -> exclusive gateway -> t2 -> t3 -> end, the texts
\* of the three activities being a phrase or a word the other identifiers
\* are made of
ClashTexts ==
    { <<"S", "t", "a", "r", "t">>, <<"s", "t", "a", "r", "t">>, <<"y">>,
      <<"g", "a", "t", "e", "w", "a", "y", "_", "x", "o", "r", "_", "2">>,
      <<"O", "r", "d", "e", "r", " ", "D", "r", "i", "n", "k">> }

ClashRecord(t1, t2, t3) ==
    [ step_nodes |->
        << Node(1, "StartNode", <<>>), Node(2, "Activity", t1), Node(3, "XOR", <<>>),
           Node(4, "Activity", t2), Node(5, "Activity", t3), Node(6, "EndNode", <<>>) >>,
      SequenceFlow |-> [n \in 1..5 |-> Edge(n, n + 1, <<>>)] ]

ClashRecords == {ClashRecord(t1, t2, t3) : t1, t2, t3 \in ClashTexts}

\* Family 6: two starts, the first leading to the node e1 and the second to e2,
\* each the activity a (4), the activity b (5) or the exclusive gateway (3)
\* that leads to both
TwoStartRecord(e1, e2) ==
    [ step_nodes |->
        << Node(1, "StartNode", <<>>), Node(2, "StartNode", <<>>), Node(3, "XOR", <<>>),
           Node(4, "Activity", <<"a">>), Node(5, "Activity", <<"b">>),
           Node(6, "EndNode", <<>>) >>,
      SequenceFlow |->
        << Edge(1, e1, <<>>), Edge(2, e2, <<>>), Edge(3, 4, <<>>), Edge(3, 5, <<>>),
           Edge(4, 6, <<>>), Edge(5, 6, <<>>) >> ]

TwoStartRecords == {TwoStartRecord(e1, e2) : e1, e2 \in 3..5}

\* Family 7: start -> action s -> parallel gateway (3) with two branches, each
\* an activity, a gateway that adds no action, or a direct edge; the branches
\* either meet at the parallel gateway 6, followed by the action d and the
\* end, or lead to an end of their own (9, 10)
ParKinds == {"Activity", "Silent", "Direct"}

ParExit(i, joined) == IF joined THEN 6 ELSE 8 + i

ParNode(ks, i) ==
    CASE ks[i] = "Activity" -> <<Node(i + 3, "Activity", <<Lowers[i]>>)>>
      [] ks[i] = "Silent" -> <<Node(i + 3, "XOR", <<>>)>>
      [] ks[i] = "Direct" -> <<>>

ParEdges(ks, i, joined) ==
    IF ks[i] = "Direct" THEN <<Edge(3, ParExit(i, joined), <<>>)>>
    ELSE <<Edge(3, i + 3, <<>>), Edge(i + 3, ParExit(i, joined), <<>>)>>

ParRecord(ks, joined) ==
    [ step_nodes |->
        <<Node(1, "StartNode", <<>>), Node(2, "Activity", <<"s">>), Node(3, "AND", <<>>)>>
        \o ParNode(ks, 1) \o ParNode(ks, 2) \o
        (IF joined
         THEN <<Node(6, "AND", <<>>), Node(7, "Activity", <<"d">>), Node(8, "EndNode", <<>>)>>
         ELSE <<Node(9, "EndNode", <<>>), Node(10, "EndNode", <<>>)>>),
      SequenceFlow |->
        <<Edge(1, 2, <<>>), Edge(2, 3, <<>>)>>
        \o ParEdges(ks, 1, joined) \o ParEdges(ks, 2, joined) \o
        (IF joined THEN <<Edge(6, 7, <<>>), Edge(7, 8, <<>>)>> ELSE <<>>) ]

ParRecords == {ParRecord(ks, joined) : ks \in [1..2 -> ParKinds], joined \in BOOLEAN}

Records ==
    EditRecords \cup LadderRecords \cup TextRecords \cup FanRecords \cup ClashRecords
        \cup TwoStartRecords \cup ParRecords

(***************************************************************************)
(* Graph Index: build_graph.                                               *)
(***************************************************************************)
\* nodes[rid] = n, on an insertion-ordered dict kept as a sequence of nodes
RECURSIVE DictPut(_, _)
DictPut(d, n) ==
    IF d = <<>> THEN <<n>>
    ELSE IF Head(d).resourceId = n.resourceId THEN <<n>> \o Tail(d)
    ELSE <<Head(d)>> \o DictPut(Tail(d), n)

RECURSIVE BuildNodes(_, _)
BuildNodes(step_nodes, d) ==
    IF step_nodes = <<>> THEN d
    ELSE BuildNodes(Tail(step_nodes), DictPut(d, Head(step_nodes)))

\* defaultdict(list) as a function on the keys that were appended to
RECURSIVE BuildOutgoing(_, _)
BuildOutgoing(flow, out) ==
    IF flow = <<>> THEN out
    ELSE LET e == Head(flow)
             old == IF e.src \in DOMAIN out THEN out[e.src] ELSE <<>>
         IN  BuildOutgoing(Tail(flow),
                 [r \in DOMAIN out \cup {e.src} |->
                    IF r = e.src THEN Append(old, <<e.tgt, e.condition>>) ELSE out[r]])

RECURSIVE BuildIncoming(_, _)
BuildIncoming(flow, inc) ==
    IF flow = <<>> THEN inc
    ELSE LET e == Head(flow)
             old == IF e.tgt \in DOMAIN inc THEN inc[e.tgt] ELSE <<>>
         IN  BuildIncoming(Tail(flow),
                 [r \in DOMAIN inc \cup {e.tgt} |->
                    IF r = e.tgt THEN Append(old, <<e.src, e.condition>>) ELSE inc[r]])

\* d.get(rid, [])
AdjGet(adj, rid) == IF rid \in DOMAIN adj THEN adj[rid] ELSE <<>>

\* nodes.get(rid): the node, or NoNode for None
NoNode == [resourceId |-> NoneVal, type |-> "None", NodeText |-> <<>>]
NodeGet(ns, rid) ==
    IF \E i \in 1..Len(ns) : ns[i].resourceId = rid
    THEN ns[CHOOSE i \in 1..Len(ns) : ns[i].resourceId = rid]
    ELSE NoNode

NodeKeys(ns) == {ns[i].resourceId : i \in 1..Len(ns)}

(***************************************************************************)
(* Identifier Synthesizer: make_action_id, make_gateway_id, build_rid_to_id*)
(***************************************************************************)
ACTIONABLE_TYPES == {"Activity", "StartNode", "EndNode"}
GATEWAY_TYPES == {"XOR", "AND", "OR"}

RECURSIVE MapChars(_, _)
MapChars(s, i) ==
    IF i > Len(s) THEN <<>>
    ELSE LET c == LowerChar(s[i])
             r == IF c = " " THEN <<"_">> ELSE IF c = "'" THEN <<>> ELSE <<c>>
         IN  r \o MapChars(s, i + 1)

KeepSlugChar(c) == IsAlnum(c) \/ c = "_"

\* strip, lower, ' ' -> '_', drop "'", keep alphanumerics and '_'
Slug(node_text) == SelectSeq(MapChars(Strip(node_text), 1), KeepSlugChar)

\* the suffix tried once, without looking it up in seen_ids
FreshIdUnchecked(base, counter, seen_ids) == base \o <<"_">> \o Dec(counter)

\* a suffix past every id seen, without trying the smaller ones
FreshIdLargest(base, counter, seen_ids) ==
    base \o <<"_">> \o Dec(counter + Cardinality(seen_ids))

RECURSIVE FreshId(_, _, _)
FreshId(base, counter, seen_ids) ==
    LET action_id == base \o <<"_">> \o Dec(counter)
    IN  IF action_id \in seen_ids THEN FreshId(base, counter + 1, seen_ids)
        ELSE action_id

\* the id make_action_id returns; the caller's seen_ids gains it
make_action_id(node_text, seen_ids) ==
    LET base == Slug(node_text)
    IN  IF base \in seen_ids THEN FreshId(base, 2, seen_ids) ELSE base

TypeLower(type) ==
    CASE type = "XOR" -> <<"x", "o", "r">>
      [] type = "AND" -> <<"a", "n", "d">>
      [] type = "OR" -> <<"o", "r">>

NodeIndex(ns, rid) == (CHOOSE i \in 1..Len(ns) : ns[i].resourceId = rid) - 1

make_gateway_id(ns, rid, node) ==
    <<"g", "a", "t", "e", "w", "a", "y", "_">> \o TypeLower(node.type) \o <<"_">>
        \o Dec(NodeIndex(ns, rid))

\* activities only
IsLabelledActivity(node) ==
    node.type = "Activity" /\ Strip(node.NodeText) # <<>>

IsActionable(node) ==
    node.type \in ACTIONABLE_TYPES /\ Strip(node.NodeText) # <<>>

\* rid_to_id as a function on the rids of the actionable nodes
RECURSIVE BuildRidToIdFrom(_, _, _, _)
BuildRidToIdFrom(ns, i, seen_ids, r2i) ==
    IF i > Len(ns) THEN r2i
    ELSE IF ~IsActionable(ns[i]) THEN BuildRidToIdFrom(ns, i + 1, seen_ids, r2i)
    ELSE LET id == make_action_id(ns[i].NodeText, seen_ids)
         IN  BuildRidToIdFrom(ns, i + 1, seen_ids \cup {id},
                 [r \in DOMAIN r2i \cup {ns[i].resourceId} |->
                    IF r = ns[i].resourceId THEN id ELSE r2i[r]])

build_rid_to_id(ns) == BuildRidToIdFrom(ns, 1, {}, <<>>)

(***************************************************************************)
(* Join Matcher: is_split, is_join, find_matching_join.                    *)
(***************************************************************************)
is_split(rid, out) == Len(AdjGet(out, rid)) > 1
is_join(rid, inc) == Len(AdjGet(inc, rid)) > 1

Targets(adj, rid) == [i \in 1..Len(AdjGet(adj, rid)) |-> AdjGet(adj, rid)[i][1]]

\* first BFS: the nodes one branch reaches without entering the split
RECURSIVE BranchReachable(_, _, _, _)
BranchReachable(queue, reachable, split_rid, out) ==
    IF queue = <<>> THEN reachable
    ELSE LET nid == Head(queue)
         IN  IF nid \in reachable \/ nid = split_rid
             THEN BranchReachable(Tail(queue), reachable, split_rid, out)
             ELSE BranchReachable(Tail(queue) \o Targets(out, nid),
                                  reachable \cup {nid}, split_rid, out)

RECURSIVE Intersection(_, _)
Intersection(sets, i) ==
    IF i = Len(sets) THEN sets[i] ELSE sets[i] \cap Intersection(sets, i + 1)

\* any existing node accepted, gateway or not
JoinKindAny(node) == node # NoNode

\* the node accepted as a join once it is common and has several incoming edges
JoinKindAccepted(node) == node # NoNode /\ node.type \in GATEWAY_TYPES

\* second BFS: the first visited common node that is an accepted join
RECURSIVE ClosestJoin(_, _, _, _, _, _)
ClosestJoin(queue, visited, common, ns, out, inc) ==
    IF queue = <<>> THEN NoneVal
    ELSE LET nid == Head(queue)
         IN  IF nid \in visited
             THEN ClosestJoin(Tail(queue), visited, common, ns, out, inc)
             ELSE IF nid \in common /\ is_join(nid, inc) /\ JoinKindAccepted(NodeGet(ns, nid))
             THEN nid
             ELSE ClosestJoin(Tail(queue) \o Targets(out, nid), visited \cup {nid},
                              common, ns, out, inc)

find_matching_join(split_rid, ns, out, inc) ==
    LET branches_out == Targets(out, split_rid)
        branch_reachable ==
            [i \in 1..Len(branches_out) |->
                BranchReachable(<<branches_out[i]>>, {}, split_rid, out)]
    IN  IF Len(branches_out) <= 1 THEN NoneVal
        ELSE LET common == Intersection(branch_reachable, 1)
             IN  IF common = {} THEN NoneVal
                 ELSE ClosestJoin(branches_out, {}, common, ns, out, inc)

(***************************************************************************)
(* Path Enumerator: enumerate_paths, _dfs, _handle_and, _handle_or.        *)
(*                                                                         *)
(* g is the closure of enumerate_paths: nodes, outgoing, incoming,         *)
(* rid_to_id.  A call yields [paths, raised, log]: the list it returns,    *)
(* whether it raised instead (KeyError), and a log of what the call and    *)
(* the calls below it did:                                                 *)
(*   [ev |-> "enter", rid, n, depth]   a call got past the stop set and    *)
(*        the loop bound at rid, being the n-th such call for rid on its   *)
(*        chain of nested calls, which has depth calls;                    *)
(*   [ev |-> "sub", split, join, path, passed]   a split with matched join *)
(*        collected the sub-path path for a branch whose traversal did     *)
(*        (passed) or did not go through the join;                         *)
(*   [ev |-> "split", split, join, base, stop, branch_paths, yields]       *)
(*        a parallel gateway took the split path with the path so far      *)
(*        base, ran its branches with the stop set stop, collected         *)
(*        branch_paths and returned yields;                                *)
(*   [ev |-> "interleave", split, join, base, seqs, path]   that gateway   *)
(*        put the non-empty sub-paths seqs of one combination in one order *)
(*        behind base, giving path, and went on from join with it.         *)
(* chain is the chain of nested calls (the rids they got into).            *)
(***************************************************************************)
Returns(ps) == [paths |-> ps, raised |-> FALSE, log |-> {}]
Raises == [paths |-> <<>>, raised |-> TRUE, log |-> {}]

\* all_paths.extend(r): a raise ends the computation where it happens
Extend(all, r) ==
    IF all.raised THEN all
    ELSE IF r.raised THEN [paths |-> <<>>, raised |-> TRUE, log |-> all.log \cup r.log]
    ELSE [paths |-> all.paths \o r.paths, raised |-> FALSE, log |-> all.log \cup r.log]

Logged(r, events) == [r EXCEPT !.log = @ \cup events]

CountIn(s, x) == Cardinality({i \in 1..Len(s) : s[i] = x})

\* defaultdict(int)
VcGet(visit_counts, rid) == IF rid \in DOMAIN visit_counts THEN visit_counts[rid] ELSE 0
VcInc(visit_counts, rid) ==
    [r \in DOMAIN visit_counts \cup {rid} |->
        IF r = rid THEN VcGet(visit_counts, rid) + 1 ELSE visit_counts[r]]

\* stop_at and current_rid in stop_at
StopHere(stop_at, current_rid) == current_rid \in stop_at

\* the bound compared with > instead of >=
LoopBoundOffByOne(visit_counts, current_rid) ==
    VcGet(visit_counts, current_rid) > MAX_LOOP_ITERATIONS

\* visit_counts[current_rid] >= MAX_LOOP_ITERATIONS
LoopBoundReached(visit_counts, current_rid) ==
    VcGet(visit_counts, current_rid) >= MAX_LOOP_ITERATIONS

\* the stop set of the enclosing split kept when there is no join
BranchStopInherit(join_rid, stop_at) == IF join_rid # NoneVal THEN {join_rid} ELSE stop_at

\* {join_rid} if join_rid else set(): the stop set of a split's branches
BranchStop(join_rid, stop_at) == IF join_rid # NoneVal THEN {join_rid} ELSE {}

\* list(itertools.product(*lists))
RECURSIVE Product(_)
RECURSIVE ProductFrom(_, _, _)
Product(lists) ==
    IF lists = <<>> THEN << <<>> >> ELSE ProductFrom(Head(lists), 1, Product(Tail(lists)))
ProductFrom(first, i, rest) ==
    IF i > Len(first) THEN <<>>
    ELSE [k \in 1..Len(rest) |-> <<first[i]>> \o rest[k]] \o ProductFrom(first, i + 1, rest)

\* list(itertools.permutations(items)), items in increasing order
RECURSIVE PermutationsOf(_)
RECURSIVE PermutationsFrom(_, _)
Without(items, i) == SubSeq(items, 1, i - 1) \o SubSeq(items, i + 1, Len(items))
\* the identity order only
PermutationsIdentity(items) == <<items>>

PermutationsOf(items) ==
    IF items = <<>> THEN << <<>> >> ELSE PermutationsFrom(items, 1)
PermutationsFrom(items, i) ==
    IF i > Len(items) THEN <<>>
    ELSE LET rest == PermutationsOf(Without(items, i))
         IN  [k \in 1..Len(rest) |-> <<items[i]>> \o rest[k]] \o PermutationsFrom(items, i + 1)

\* the subsets of size one only
CombinationsSingle(lo, n, r) ==
    IF r = 1 THEN [k \in 1..(n - lo + 1) |-> <<lo + k - 1>>] ELSE <<>>

\* list(itertools.combinations(range(lo, n + 1), r))
RECURSIVE Combinations(_, _, _)
Combinations(lo, n, r) ==
    IF r = 0 THEN << <<>> >>
    ELSE IF lo > n THEN <<>>
    ELSE LET with == Combinations(lo + 1, n, r - 1)
         IN  [k \in 1..Len(with) |-> <<lo>> \o with[k]] \o Combinations(lo + 1, n, r)

\* every sub-path taken, empty or not
AnySeq(seq) == TRUE

\* if seq
NonEmpty(seq) == seq # <<>>

\* seq[:n]
Prefix(seq, n) == SubSeq(seq, 1, IF Len(seq) < n THEN Len(seq) ELSE n)

\* all_paths[:MAX_PATHS]
Truncate(r) == IF r.raised THEN r ELSE [r EXCEPT !.paths = Prefix(@, MAX_PATHS)]

RECURSIVE Dfs(_, _, _, _, _, _)
RECURSIVE ForEdges(_, _, _, _, _, _, _)
RECURSIVE HandleAnd(_, _, _, _, _, _)
RECURSIVE HandleOr(_, _, _, _, _, _)
RECURSIVE BranchCalls(_, _, _, _, _, _)
RECURSIVE AndCombos(_, _, _, _, _, _, _, _, _)
RECURSIVE AndPerms(_, _, _, _, _, _, _, _, _, _)
RECURSIVE OrSubsets(_, _, _, _, _, _, _, _, _, _)
RECURSIVE OrCombos(_, _, _, _, _, _, _, _, _)

\* the log entry of one interleaving made by the split the chain ends with
Interleave(chain, join_rid, path, branch_seqs, interleaved) ==
    [ev |-> "interleave", split |-> chain[Len(chain)], join |-> join_rid,
     base |-> path, seqs |-> branch_seqs, path |-> interleaved]

\* after a combination: _dfs(join_rid, p, ...) if join_rid else [p]
Continue(g, join_rid, p, visit_counts, stop_at, chain) ==
    IF join_rid # NoneVal THEN Dfs(g, join_rid, p, visit_counts, stop_at, chain)
    ELSE Returns(<<p>>)

\* the first edge followed only
ForEdgesFirst(g, edges, i, path, visit_counts, stop_at, chain) ==
    IF i > Len(edges) THEN Returns(<<>>)
    ELSE Dfs(g, edges[1][1], path, visit_counts, stop_at, chain)

\* for tgt, _ in edges: all_paths.extend(_dfs(tgt, path, visit_counts, stop_at))
ForEdges(g, edges, i, path, visit_counts, stop_at, chain) ==
    IF i > Len(edges) THEN Returns(<<>>)
    ELSE Extend(Dfs(g, edges[i][1], path, visit_counts, stop_at, chain),
                ForEdges(g, edges, i + 1, path, visit_counts, stop_at, chain))

Dfs(g, current_rid, path, visit_counts0, stop_at, chain0) ==
    IF StopHere(stop_at, current_rid) THEN Returns(<<path>>)
    ELSE IF LoopBoundReached(visit_counts0, current_rid) THEN Returns(<<path>>)
    ELSE
    LET visit_counts == VcInc(visit_counts0, current_rid)
        chain == Append(chain0, current_rid)
        enter == [ev |-> "enter", rid |-> current_rid,
                  n |-> CountIn(chain, current_rid), depth |-> Len(chain)]
        node == NodeGet(g.nodes, current_rid)
        next_edges == AdjGet(g.outgoing, current_rid)
        result ==
          IF node = NoNode THEN Returns(<<path>>)
          ELSE IF node.type = "EndNode" THEN
              IF current_rid \in DOMAIN g.rid_to_id
              THEN Returns(<<Append(path, g.rid_to_id[current_rid])>>)
              ELSE Returns(<<path>>)
          ELSE IF node.type = "Activity"
                  \/ (node.type = "StartNode" /\ current_rid \in DOMAIN g.rid_to_id) THEN
              IF current_rid \notin DOMAIN g.rid_to_id THEN Raises
              ELSE LET new_path == Append(path, g.rid_to_id[current_rid])
                   IN  IF next_edges = <<>> THEN Returns(<<new_path>>)
                       ELSE ForEdges(g, next_edges, 1, new_path, visit_counts, stop_at, chain)
          ELSE IF node.type = "XOR" THEN
              ForEdges(g, next_edges, 1, path, visit_counts, stop_at, chain)
          ELSE IF node.type = "AND" THEN
              HandleAnd(g, current_rid, path, visit_counts, stop_at, chain)
          ELSE IF node.type = "OR" THEN
              HandleOr(g, current_rid, path, visit_counts, stop_at, chain)
          ELSE IF node.type = "StartNode" THEN
              ForEdges(g, next_edges, 1, path, visit_counts, stop_at, chain)
          ELSE Returns(<<path>>)
    IN  Logged(result, {enter})

\* bp = _dfs(tgt, [], visit_counts, stop_at=branch_stop) for each branch:
\* the sequence of the calls' results
BranchCalls(g, branches_out, i, visit_counts, branch_stop, chain) ==
    IF i > Len(branches_out) THEN <<>>
    ELSE <<Dfs(g, branches_out[i][1], <<>>, visit_counts, branch_stop, chain)>>
         \o BranchCalls(g, branches_out, i + 1, visit_counts, branch_stop, chain)

AnyRaised(calls) == \E i \in 1..Len(calls) : calls[i].raised

BranchLog(split_rid, join_rid, calls) ==
    UNION {calls[i].log : i \in 1..Len(calls)} \cup
    IF join_rid = NoneVal THEN {}
    ELSE UNION { { [ev |-> "sub", split |-> split_rid, join |-> join_rid,
                    path |-> calls[i].paths[k],
                    passed |-> \E e \in calls[i].log :
                                  e.ev = "enter" /\ e.rid = join_rid] :
                   k \in 1..Len(calls[i].paths) } : i \in 1..Len(calls) }

\* the result of a parallel split with its log: the branches' logs and
\* sub-paths, and the split's own entry
SplitLogged(result, split_rid, join_rid, path, branch_stop, calls) ==
    Logged(result,
           BranchLog(split_rid, join_rid, calls) \cup
           {[ev |-> "split", split |-> split_rid, join |-> join_rid,
             base |-> path, stop |-> branch_stop,
             branch_paths |-> [i \in 1..Len(calls) |-> calls[i].paths],
             yields |-> result.paths]})

HandleAnd(g, current_rid, path, visit_counts, stop_at, chain) ==
    LET branches_out == AdjGet(g.outgoing, current_rid)
    IN  IF branches_out = <<>> THEN Returns(<<path>>)
        ELSE IF is_join(current_rid, g.incoming) /\ ~is_split(current_rid, g.outgoing)
        THEN ForEdges(g, branches_out, 1, path, visit_counts, stop_at, chain)
        ELSE
        LET join_rid == find_matching_join(current_rid, g.nodes, g.outgoing, g.incoming)
            branch_stop == BranchStop(join_rid, stop_at)
            calls == BranchCalls(g, branches_out, 1, visit_counts, branch_stop, chain)
        IN  IF AnyRaised(calls) THEN Raises
            ELSE
            LET branch_paths == [i \in 1..Len(calls) |-> calls[i].paths]
                branch_combos == Product(branch_paths)
                capped == Prefix(branch_combos, MAX_PATHS)
                all == AndCombos(g, capped, 1, Returns(<<>>), join_rid, path,
                                 visit_counts, stop_at, chain)
            IN  SplitLogged(Truncate(all), current_rid, join_rid, path, branch_stop, calls)

\* for combo in branch_combos[:MAX_PATHS]
AndCombos(g, combos, ci, all, join_rid, path, visit_counts, stop_at, chain) ==
    IF ci > Len(combos) \/ all.raised THEN all
    ELSE LET branch_seqs == SelectSeq(combos[ci], NonEmpty)
         IN  IF branch_seqs = <<>>
             THEN AndCombos(g, combos, ci + 1,
                      Extend(all, Logged(Continue(g, join_rid, path, visit_counts,
                                                  stop_at, chain),
                                         {Interleave(chain, join_rid, path, <<>>, path)})),
                      join_rid, path, visit_counts, stop_at, chain)
             ELSE LET perms == PermutationsOf([k \in 1..Len(branch_seqs) |-> k])
                      after == AndPerms(g, branch_seqs, perms, 1, all, join_rid, path,
                                        visit_counts, stop_at, chain)
                  IN  IF after.raised \/ Len(after.paths) >= MAX_PATHS THEN after
                      ELSE AndCombos(g, combos, ci + 1, after, join_rid, path,
                                     visit_counts, stop_at, chain)

\* for perm in permutations(range(len(branch_seqs)))
AndPerms(g, branch_seqs, perms, pi, all, join_rid, path, visit_counts, stop_at, chain) ==
    IF pi > Len(perms) \/ all.raised THEN all
    ELSE LET interleaved ==
                 path \o Concat([k \in 1..Len(perms[pi]) |-> branch_seqs[perms[pi][k]]])
             after == Extend(all, Logged(Continue(g, join_rid, interleaved, visit_counts,
                                                 stop_at, chain),
                                        {Interleave(chain, join_rid, path, branch_seqs,
                                                    interleaved)}))
         IN  IF after.raised \/ Len(after.paths) >= MAX_PATHS THEN after
             ELSE AndPerms(g, branch_seqs, perms, pi + 1, after, join_rid, path,
                           visit_counts, stop_at, chain)

HandleOr(g, current_rid, path, visit_counts, stop_at, chain) ==
    LET branches_out == AdjGet(g.outgoing, current_rid)
    IN  IF branches_out = <<>> THEN Returns(<<path>>)
        ELSE IF is_join(current_rid, g.incoming) /\ ~is_split(current_rid, g.outgoing)
        THEN ForEdges(g, branches_out, 1, path, visit_counts, stop_at, chain)
        ELSE
        LET join_rid == find_matching_join(current_rid, g.nodes, g.outgoing, g.incoming)
            branch_stop == BranchStop(join_rid, stop_at)
            calls == BranchCalls(g, branches_out, 1, visit_counts, branch_stop, chain)
        IN  IF AnyRaised(calls) THEN Raises
            ELSE
            LET branch_paths == [i \in 1..Len(calls) |-> calls[i].paths]
                n == Len(branch_paths)
                subsets == Concat([r \in 1..n |-> Combinations(1, n, r)])
                all == OrSubsets(g, branch_paths, subsets, 1, Returns(<<>>), join_rid,
                                 path, visit_counts, stop_at, chain)
            IN  Logged(Truncate(all), BranchLog(current_rid, join_rid, calls))

\* for r ...: for subset in combinations(range(n), r)
OrSubsets(g, branch_paths, subsets, si, all, join_rid, path, visit_counts, stop_at, chain) ==
    IF si > Len(subsets) \/ all.raised THEN all
    ELSE LET chosen == [k \in 1..Len(subsets[si]) |-> branch_paths[subsets[si][k]]]
             after == OrCombos(g, Product(chosen), 1, all, join_rid, path,
                               visit_counts, stop_at, chain)
         IN  IF after.raised \/ Len(after.paths) >= MAX_PATHS THEN after
             ELSE OrSubsets(g, branch_paths, subsets, si + 1, after, join_rid, path,
                            visit_counts, stop_at, chain)

\* for combo in product(*chosen)
OrCombos(g, combos, ci, all, join_rid, path, visit_counts, stop_at, chain) ==
    IF ci > Len(combos) \/ all.raised THEN all
    ELSE LET merged == path \o Concat(combos[ci])
             after == Extend(all, Continue(g, join_rid, merged, visit_counts,
                                          stop_at, chain))
         IN  IF after.raised \/ Len(after.paths) >= MAX_PATHS THEN after
             ELSE OrCombos(g, combos, ci + 1, after, join_rid, path,
                           visit_counts, stop_at, chain)

\* a path kept where it occurs last
UniqueLast(all_execution_paths) ==
    LET last == {i \in 1..Len(all_execution_paths) :
                   \A j \in (i + 1)..Len(all_execution_paths) :
                       all_execution_paths[j] # all_execution_paths[i]}
    IN  [k \in 1..Cardinality(last) |->
            all_execution_paths[CHOOSE i \in last :
                                   Cardinality({j \in last : j <= i}) = k]]

\* remove duplicate paths: a path is kept where it occurs first
Unique(all_execution_paths) ==
    LET first == {i \in 1..Len(all_execution_paths) :
                    \A j \in 1..(i - 1) : all_execution_paths[j] # all_execution_paths[i]}
    IN  [k \in 1..Cardinality(first) |->
            all_execution_paths[CHOOSE i \in first :
                                   Cardinality({j \in first : j <= i}) = k]]

RECURSIVE FromStarts(_, _, _)
FromStarts(g, start_rids, i) ==
    IF i > Len(start_rids) THEN Returns(<<>>)
    ELSE Extend(Dfs(g, start_rids[i], <<>>, <<>>, {}, <<>>), FromStarts(g, start_rids, i + 1))

\* [paths |-> unique_paths, raised, log, all_execution_paths]
enumerate_paths(ns, out, inc, r2i, start_rids) ==
    LET g == [nodes |-> ns, outgoing |-> out, incoming |-> inc, rid_to_id |-> r2i]
        all == FromStarts(g, start_rids, 1)
    IN  [paths |-> IF all.raised THEN <<>> ELSE Unique(all.paths),
         raised |-> all.raised,
         log |-> all.log,
         all_execution_paths |-> all.paths]

\* the caller's start_rids: every StartNode, in node order
IsStart(node) == node.type = "StartNode"
StartRids(ns) == [i \in 1..Len(SelectSeq(ns, IsStart)) |-> SelectSeq(ns, IsStart)[i].resourceId]

(***************************************************************************)
(* Execution-State Builder: build_execution_states.                        *)
(***************************************************************************)
\* if next_action: (None and the empty string are both false)
Truthy(next_action) == next_action # NoneVal /\ next_action # <<>>

\* state_map: insertion-ordered, a sequence of [completed, available]
MapHas(state_map, completed) ==
    \E k \in 1..Len(state_map) : state_map[k].completed = completed

MapAdd(state_map, completed, next_action) ==
    [k \in 1..Len(state_map) |->
        IF state_map[k].completed = completed
        THEN [state_map[k] EXCEPT !.available = @ \cup {next_action}]
        ELSE state_map[k]]

\* one pass of: for step_idx in range(len(path) + 1)
RECURSIVE StepsOf(_, _, _)
StepsOf(path, step_idx, acc) ==
    IF step_idx > Len(path) THEN acc
    ELSE LET completed == SubSeq(path, 1, step_idx)
             next_action == IF step_idx < Len(path) THEN path[step_idx + 1] ELSE NoneVal
             m1 == IF MapHas(acc.state_map, completed) THEN acc.state_map
                   ELSE Append(acc.state_map, [completed |-> completed, available |-> {}])
             next == IF Truthy(next_action)
                     THEN [state_map |-> MapAdd(m1, completed, next_action),
                           terminal_states |-> acc.terminal_states]
                     ELSE [state_map |-> m1,
                           terminal_states |-> acc.terminal_states \cup {completed}]
         IN  IF Len(next.state_map) > 0 THEN StepsOf(path, step_idx + 1, next) ELSE next

RECURSIVE PathsInto(_, _, _)
PathsInto(paths, i, acc) ==
    IF i > Len(paths) THEN acc
    ELSE LET next == StepsOf(paths[i], 0, acc)
         IN  IF Len(next.state_map) > 0 THEN PathsInto(paths, i + 1, next) ELSE next

\* list(set of strings): a set of str iterates in an order that depends on
\* the hash seed of the interpreter process
RECURSIVE SetOrder(_)
SetOrder(S) ==
    IF S = {} THEN <<>>
    ELSE LET first == CHOOSE x \in S : \A y \in S \ {x} :
                          IF hash_seed = 0 THEN StrLess(x, y) ELSE StrLess(y, x)
         IN  <<first>> \o SetOrder(S \ {first})

\* sorted(set of strings)
RECURSIVE Sorted(_)
Sorted(S) ==
    IF S = {} THEN <<>>
    ELSE LET least == CHOOSE x \in S : \A y \in S \ {x} : StrLess(x, y)
         IN  <<least>> \o Sorted(S \ {least})

build_execution_states(unique_paths) ==
    LET acc == PathsInto(Prefix(unique_paths, MAX_PATHS), 1,
                         [state_map |-> <<>>, terminal_states |-> {}])
    IN  [k \in 1..Len(acc.state_map) |->
            LET completed == acc.state_map[k].completed
                state == [completed_actions |-> completed,
                          available_next |-> Sorted(acc.state_map[k].available)]
            IN  IF completed \in acc.terminal_states
                THEN [completed_actions |-> state.completed_actions,
                      available_next |-> state.available_next,
                      can_terminate |-> TRUE]
                ELSE state]

(***************************************************************************)
(* Action/Gateway Extractor: extract_actions, extract_gateways.  The agent *)
(* of a node (actor) and the postconditions token are left out.            *)
(***************************************************************************)
\* every item kept, repeated or not
KeepAll(items, acc) == acc \o items

\* list(dict.fromkeys(items))
RECURSIVE Dedup(_, _)
Dedup(items, acc) ==
    IF items = <<>> THEN acc
    ELSE IF \E k \in 1..Len(acc) : acc[k] = Head(items) THEN Dedup(Tail(items), acc)
    ELSE Dedup(Tail(items), Append(acc, Head(items)))

StartSentinel == <<"s", "t", "a", "r", "t">>

\* what one incoming edge adds to an action's predecessors
PredecessorRef(ns, r2i, src) ==
    LET src_node == NodeGet(ns, src)
    IN  IF src_node = NoNode THEN <<>>
        ELSE IF IsActionable(src_node) THEN <<r2i[src]>>
        ELSE IF src_node.type \in GATEWAY_TYPES THEN <<make_gateway_id(ns, src, src_node)>>
        ELSE IF src_node.type = "StartNode" THEN <<StartSentinel>>
        ELSE <<>>

\* what one outgoing edge adds to an action's successors
SuccessorRef(ns, r2i, tgt) ==
    LET tgt_node == NodeGet(ns, tgt)
    IN  IF tgt_node = NoNode THEN <<>>
        ELSE IF IsActionable(tgt_node) THEN <<r2i[tgt]>>
        ELSE IF tgt_node.type \in GATEWAY_TYPES THEN <<make_gateway_id(ns, tgt, tgt_node)>>
        ELSE <<>>

ActionOf(ns, out, inc, r2i, node) ==
    LET rid == node.resourceId
        ins == AdjGet(inc, rid)
        outs == AdjGet(out, rid)
    IN  [ id |-> r2i[rid],
          name |-> Strip(node.NodeText),
          predecessors |->
              Dedup(Concat([k \in 1..Len(ins) |-> PredecessorRef(ns, r2i, ins[k][1])]), <<>>),
          successors |->
              Dedup(Concat([k \in 1..Len(outs) |-> SuccessorRef(ns, r2i, outs[k][1])]), <<>>) ]

extract_actions(ns, out, inc, r2i) ==
    LET actionable == SelectSeq(ns, IsActionable)
    IN  [k \in 1..Len(actionable) |-> ActionOf(ns, out, inc, r2i, actionable[k])]

\* no branch for an edge that ends the process
BranchOfSkipEnd(ns, r2i, tgt, cond) ==
    LET tgt_node == NodeGet(ns, tgt)
        next_id ==
            IF tgt \in DOMAIN r2i THEN r2i[tgt]
            ELSE IF tgt_node.type \in GATEWAY_TYPES THEN make_gateway_id(ns, tgt, tgt_node)
            ELSE tgt
    IN  IF tgt_node = NoNode \/ (tgt_node.type = "EndNode" /\ tgt \notin DOMAIN r2i) THEN <<>>
        ELSE IF Strip(cond) # <<>> THEN <<[next |-> next_id, condition |-> Strip(cond)]>>
        ELSE <<[next |-> next_id]>>

\* every End node taken for termination, labelled or not
BranchOfEndNull(ns, r2i, tgt, cond) ==
    LET tgt_node == NodeGet(ns, tgt)
        next_id ==
            IF tgt_node.type = "EndNode" THEN NoneVal
            ELSE IF tgt \in DOMAIN r2i THEN r2i[tgt]
            ELSE IF tgt_node.type \in GATEWAY_TYPES THEN make_gateway_id(ns, tgt, tgt_node)
            ELSE tgt
    IN  IF tgt_node = NoNode THEN <<>>
        ELSE IF Strip(cond) # <<>> THEN <<[next |-> next_id, condition |-> Strip(cond)]>>
        ELSE <<[next |-> next_id]>>

\* the branch one outgoing edge of a gateway yields (none for an unknown target)
BranchOf(ns, r2i, tgt, cond) ==
    LET tgt_node == NodeGet(ns, tgt)
        next_id ==
            IF tgt \in DOMAIN r2i THEN r2i[tgt]
            ELSE IF tgt_node.type \in GATEWAY_TYPES THEN make_gateway_id(ns, tgt, tgt_node)
            ELSE IF tgt_node.type = "EndNode" THEN NoneVal
            ELSE tgt
    IN  IF tgt_node = NoNode THEN <<>>
        ELSE IF Strip(cond) # <<>> THEN <<[next |-> next_id, condition |-> Strip(cond)]>>
        ELSE <<[next |-> next_id]>>

\* gateways only, no action
IncomingRefGatewaysOnly(ns, r2i, src) ==
    LET src_node == NodeGet(ns, src)
    IN  IF src_node.type \in GATEWAY_TYPES THEN <<make_gateway_id(ns, src, src_node)>>
        ELSE <<>>

\* what one incoming edge adds to a gateway's incoming_from
IncomingRef(ns, r2i, src) ==
    LET src_node == NodeGet(ns, src)
    IN  IF src_node = NoNode THEN <<>>
        ELSE IF src \in DOMAIN r2i THEN <<r2i[src]>>
        ELSE IF src_node.type \in GATEWAY_TYPES THEN <<make_gateway_id(ns, src, src_node)>>
        ELSE <<>>

\* a join needing one incoming edge only
RoleOfLooseJoin(in_degree, out_degree) ==
    IF in_degree < 1 /\ out_degree > 1 THEN "split"
    ELSE IF in_degree >= 1 /\ out_degree <= 1 THEN "merge"
    ELSE IF in_degree >= 1 /\ out_degree > 1 THEN "join_split"
    ELSE "pass_through"

RoleOf(in_degree, out_degree) ==
    IF in_degree <= 1 /\ out_degree > 1 THEN "split"
    ELSE IF in_degree > 1 /\ out_degree <= 1 THEN "merge"
    ELSE IF in_degree > 1 /\ out_degree > 1 THEN "join_split"
    ELSE "pass_through"

GATEWAY_TYPE_MAP(type) ==
    CASE type = "XOR" -> "exclusive" [] type = "AND" -> "parallel" [] type = "OR" -> "inclusive"

GatewayOf(ns, out, inc, r2i, node) ==
    LET rid == node.resourceId
        ins == AdjGet(inc, rid)
        outs == AdjGet(out, rid)
    IN  [ id |-> make_gateway_id(ns, rid, node),
          type |-> GATEWAY_TYPE_MAP(node.type),
          role |-> RoleOf(Len(ins), Len(outs)),
          incoming_from |->
              Dedup(Concat([k \in 1..Len(ins) |-> IncomingRef(ns, r2i, ins[k][1])]), <<>>),
          branches |->
              Concat([k \in 1..Len(outs) |-> BranchOf(ns, r2i, outs[k][1], outs[k][2])]) ]

IsGateway(node) == node.type \in GATEWAY_TYPES

extract_gateways(ns, out, inc, r2i) ==
    LET gws == SelectSeq(ns, IsGateway)
    IN  [k \in 1..Len(gws) |-> GatewayOf(ns, out, inc, r2i, gws[k])]

(***************************************************************************)
(* Validator: _build_gt_from_raw and the relation sets of validate_record. *)
(* A pair or triple is a tuple; None is NoneVal.                           *)
(***************************************************************************)
\* gateway rid -> gateway_id
rid_to_gateway_id(ns) ==
    [r \in {ns[i].resourceId : i \in {k \in 1..Len(ns) : IsGateway(ns[k])}} |->
        make_gateway_id(ns, r, NodeGet(ns, r))]

schema_id(ns, r2i, rid) ==
    LET node == NodeGet(ns, rid)
    IN  IF rid \in DOMAIN r2i THEN r2i[rid]
        ELSE IF rid \in DOMAIN rid_to_gateway_id(ns) THEN rid_to_gateway_id(ns)[rid]
        ELSE IF node # NoNode /\ node.type = "StartNode" /\ Strip(node.NodeText) = <<>>
        THEN StartSentinel
        ELSE NoneVal

\* (action_id, tgt_sid) for the outgoing edges of the actions, where tgt_sid is true
gt_action_successors(ns, out, inc, r2i) ==
    UNION { { <<r2i[rid], schema_id(ns, r2i, tgt)>> :
                tgt \in {t \in Range(Targets(out, rid)) : Truthy(schema_id(ns, r2i, t))} } :
            rid \in DOMAIN r2i }

\* (src_sid, action_id) for the incoming edges of the actions, where src_sid is true
gt_action_predecessors(ns, out, inc, r2i) ==
    UNION { { <<schema_id(ns, r2i, src), r2i[rid]>> :
                src \in {s \in Range(Targets(inc, rid)) : Truthy(schema_id(ns, r2i, s))} } :
            rid \in DOMAIN r2i }

\* what one outgoing edge of a gateway adds to gt_gw_next
GtNextOf(ns, r2i, gid, tgt) ==
    LET tgt_node == NodeGet(ns, tgt)
        tgt_sid == schema_id(ns, r2i, tgt)
    IN  IF tgt_node = NoNode THEN {}
        ELSE IF Truthy(tgt_sid) THEN {<<gid, tgt_sid>>}
        ELSE IF tgt_node.type = "EndNode" THEN {<<gid, NoneVal>>}
        ELSE {}

gt_gw_next(ns, out, inc, r2i) ==
    UNION { UNION { GtNextOf(ns, r2i, rid_to_gateway_id(ns)[rid], tgt) :
                      tgt \in Range(Targets(out, rid)) } :
            rid \in DOMAIN rid_to_gateway_id(ns) }

gt_gw_incoming(ns, out, inc, r2i) ==
    UNION { { <<schema_id(ns, r2i, src), rid_to_gateway_id(ns)[rid]>> :
                src \in {s \in Range(Targets(inc, rid)) : Truthy(schema_id(ns, r2i, s))} } :
            rid \in DOMAIN rid_to_gateway_id(ns) }

\* cond.strip() if cond.strip() else None
CondNorm(cond) == IF Strip(cond) # <<>> THEN Strip(cond) ELSE NoneVal

\* what one outgoing edge of a gateway adds to gt_branch_tuples
GtBranchOf(ns, r2i, gid, edge) ==
    LET tgt_node == NodeGet(ns, edge[1])
        tgt_sid == IF tgt_node.type = "EndNode" THEN NoneVal
                   ELSE schema_id(ns, r2i, edge[1])
    IN  IF tgt_node = NoNode THEN {} ELSE {<<gid, tgt_sid, CondNorm(edge[2])>>}

gt_branch_tuples(ns, out, inc, r2i) ==
    UNION { UNION { GtBranchOf(ns, r2i, rid_to_gateway_id(ns)[rid], edge) :
                      edge \in Range(AdjGet(out, rid)) } :
            rid \in DOMAIN rid_to_gateway_id(ns) }

ext_action_successors(acts) ==
    UNION { { <<acts[k].id, s>> : s \in Range(acts[k].successors) } : k \in 1..Len(acts) }

ext_action_predecessors(acts) ==
    UNION { { <<p_id, acts[k].id>> : p_id \in Range(acts[k].predecessors) } :
            k \in 1..Len(acts) }

ext_gw_next(gws) ==
    UNION { { <<gws[k].id, branch.next>> : branch \in Range(gws[k].branches) } :
            k \in 1..Len(gws) }

ext_gw_incoming(gws) ==
    UNION { { <<inc_id, gws[k].id>> : inc_id \in Range(gws[k].incoming_from) } :
            k \in 1..Len(gws) }

\* branch.get('condition')
BranchCondition(branch) ==
    IF "condition" \in DOMAIN branch THEN branch.condition ELSE NoneVal

ext_branch_tuples(gws) ==
    UNION { { <<gws[k].id, branch.next, BranchCondition(branch)>> :
                branch \in Range(gws[k].branches) } : k \in 1..Len(gws) }

\* one entry of metrics: the two sets and the differences reported
Relation(ground_truth, extracted, extra) ==
    [gt |-> ground_truth, ext |-> extracted,
     missing |-> ground_truth \ extracted, extra |-> extra]

\* the relation sets validate_record compares, rebuilt from the raw record
\* and read from the extracted workflow
validate_record(raw_record, acts, gws) ==
    LET ns == BuildNodes(raw_record.step_nodes, <<>>)
        out == BuildOutgoing(raw_record.SequenceFlow, <<>>)
        inc == BuildIncoming(raw_record.SequenceFlow, <<>>)
        r2i == build_rid_to_id(ns)
    IN  [ action_successors |->
              Relation(gt_action_successors(ns, out, inc, r2i), ext_action_successors(acts),
                       ext_action_successors(acts) \ ext_action_successors(acts)),
          action_predecessors |->
              Relation(gt_action_predecessors(ns, out, inc, r2i), ext_action_predecessors(acts),
                       ext_action_predecessors(acts) \ gt_action_predecessors(ns, out, inc, r2i)),
          gateway_branches_next |->
              Relation(gt_gw_next(ns, out, inc, r2i), ext_gw_next(gws),
                       ext_gw_next(gws) \ gt_gw_next(ns, out, inc, r2i)),
          gateway_incoming |->
              Relation(gt_gw_incoming(ns, out, inc, r2i), ext_gw_incoming(gws),
                       ext_gw_incoming(gws) \ gt_gw_incoming(ns, out, inc, r2i)),
          branch_tuples |->
              Relation(gt_branch_tuples(ns, out, inc, r2i), ext_branch_tuples(gws),
                       ext_branch_tuples(gws) \ gt_branch_tuples(ns, out, inc, r2i)) ]

\* metrics = {}
NotValidated == <<>>

(***************************************************************************)
(* The pipeline on one record, in the order of extract_workflow: graph,    *)
(* identifiers, actions, gateways, paths, execution states.  pc is the set *)
(* of the steps done.                                                      *)
(***************************************************************************)
NotEnumerated ==
    [paths |-> <<>>, raised |-> FALSE, log |-> {}, all_execution_paths |-> <<>>]
NoQuery == [split_rid |-> NoneVal, join_rid |-> NoneVal]

\* the hash seeds of two interpreter processes
HashSeeds == {0, 1}

\* the output of one run of the pipeline on a record
Output(r2i, acts, gws, en, states) ==
    [rid_to_id |-> r2i, actions |-> acts, gateways |-> gws, paths |-> en.paths,
     raised |-> en.raised, execution_states |-> states]

NoOutput == Output(<<>>, <<>>, <<>>, NotEnumerated, <<>>)

\* the whole pipeline on a record
extract_workflow(rec) ==
    LET ns == BuildNodes(rec.step_nodes, <<>>)
        out == BuildOutgoing(rec.SequenceFlow, <<>>)
        inc == BuildIncoming(rec.SequenceFlow, <<>>)
        r2i == build_rid_to_id(ns)
        en == enumerate_paths(ns, out, inc, r2i, StartRids(ns))
    IN  Output(r2i, extract_actions(ns, out, inc, r2i), extract_gateways(ns, out, inc, r2i),
               en, IF en.raised THEN <<>> ELSE build_execution_states(en.paths))

Init ==
    /\ record \in Records
    /\ pc = {}
    /\ nodes = <<>>
    /\ outgoing = <<>>
    /\ incoming = <<>>
    /\ rid_to_id = <<>>
    /\ actions = <<>>
    /\ gateways = <<>>
    /\ enum = NotEnumerated
    /\ execution_states = <<>>
    /\ join_query = NoQuery
    /\ hash_seed = 0
    /\ rerun = NoOutput
    /\ metrics = NotValidated

BuildGraph ==
    /\ pc = {}
    /\ nodes' = BuildNodes(record.step_nodes, <<>>)
    /\ outgoing' = BuildOutgoing(record.SequenceFlow, <<>>)
    /\ incoming' = BuildIncoming(record.SequenceFlow, <<>>)
    /\ pc' = {"graph"}
    /\ UNCHANGED <<record, rid_to_id, actions, gateways, enum, execution_states, join_query>>
    /\ UNCHANGED <<hash_seed, rerun, metrics>>

BuildRidToId ==
    /\ pc = {"graph"}
    /\ rid_to_id' = build_rid_to_id(nodes)
    /\ pc' = {"graph", "ids"}
    /\ UNCHANGED <<record, nodes, outgoing, incoming, actions, gateways, enum,
                   execution_states, join_query>>
    /\ UNCHANGED <<hash_seed, rerun, metrics>>

EnumeratePaths ==
    /\ pc = {"graph", "ids", "actions", "gateways"}
    /\ enum' = enumerate_paths(nodes, outgoing, incoming, rid_to_id, StartRids(nodes))
    /\ pc' = pc \cup {"paths"}
    /\ UNCHANGED <<record, nodes, outgoing, incoming, rid_to_id, actions, gateways,
                   execution_states, join_query>>
    /\ UNCHANGED <<hash_seed, rerun, metrics>>

ExtractActions ==
    /\ pc = {"graph", "ids"}
    /\ actions' = extract_actions(nodes, outgoing, incoming, rid_to_id)
    /\ pc' = pc \cup {"actions"}
    /\ UNCHANGED <<record, nodes, outgoing, incoming, rid_to_id, gateways, enum,
                   execution_states, join_query>>
    /\ UNCHANGED <<hash_seed, rerun, metrics>>

ExtractGateways ==
    /\ pc = {"graph", "ids", "actions"}
    /\ gateways' = extract_gateways(nodes, outgoing, incoming, rid_to_id)
    /\ pc' = pc \cup {"gateways"}
    /\ UNCHANGED <<record, nodes, outgoing, incoming, rid_to_id, actions, enum,
                   execution_states, join_query>>
    /\ UNCHANGED <<hash_seed, rerun, metrics>>

BuildExecutionStates ==
    /\ "paths" \in pc /\ "states" \notin pc /\ ~enum.raised
    /\ execution_states' = build_execution_states(enum.paths)
    /\ pc' = pc \cup {"states"}
    /\ UNCHANGED <<record, nodes, outgoing, incoming, rid_to_id, actions, gateways,
                   enum, join_query>>
    /\ UNCHANGED <<hash_seed, rerun, metrics>>

\* the join matcher applied to one split of the indexed graph
FindMatchingJoin ==
    /\ pc = {"graph"}
    /\ \E split_rid \in {r \in NodeKeys(nodes) : is_split(r, outgoing)} :
          join_query' = [split_rid |-> split_rid,
                         join_rid |-> find_matching_join(split_rid, nodes, outgoing, incoming)]
    /\ pc' = {"graph", "join"}
    /\ UNCHANGED <<record, nodes, outgoing, incoming, rid_to_id, actions, gateways,
                   enum, execution_states>>
    /\ UNCHANGED <<hash_seed, rerun, metrics>>

\* the run has ended, with its output written and validated or with an error
Finished == "validated" \in pc \/ ("paths" \in pc /\ enum.raised)

\* a new interpreter process, with another hash seed
Restart ==
    /\ Finished /\ "restarted" \notin pc
    /\ hash_seed' \in HashSeeds \ {hash_seed}
    /\ pc' = pc \cup {"restarted"}
    /\ UNCHANGED <<record, nodes, outgoing, incoming, rid_to_id, actions, gateways,
                   enum, execution_states, join_query, rerun, metrics>>

\* the same record extracted once more
Rerun ==
    /\ "restarted" \in pc /\ "rerun" \notin pc
    /\ rerun' = extract_workflow(record)
    /\ pc' = pc \cup {"rerun"}
    /\ UNCHANGED <<record, nodes, outgoing, incoming, rid_to_id, actions, gateways,
                   enum, execution_states, join_query, hash_seed, metrics>>

\* the validator run on the record and on the workflow extracted from it
ValidateRecord ==
    /\ "states" \in pc /\ "validated" \notin pc
    /\ metrics' = validate_record(record, actions, gateways)
    /\ pc' = pc \cup {"validated"}
    /\ UNCHANGED <<record, nodes, outgoing, incoming, rid_to_id, actions, gateways,
                   enum, execution_states, join_query, hash_seed, rerun>>

Next ==
    \/ BuildGraph
    \/ BuildRidToId
    \/ FindMatchingJoin
    \/ ExtractActions
    \/ ExtractGateways
    \/ EnumeratePaths
    \/ BuildExecutionStates
    \/ Restart
    \/ Rerun
    \/ ValidateRecord

Spec == Init /\ [][Next]_vars

(***************************************************************************)
(* Properties.                                                             *)
(***************************************************************************)
Enumerated == "paths" \in pc /\ ~enum.raised

PathSet == {enum.paths[i] : i \in 1..Len(enum.paths)}

ActionIds == {rid_to_id[r] : r \in DOMAIN rid_to_id}

GatewayNodes == {n \in Range(nodes) : n.type \in GATEWAY_TYPES}

GatewayIds == {make_gateway_id(nodes, n.resourceId, n) : n \in GatewayNodes}

Type(rid) == NodeGet(nodes, rid).type

\* C1: the number of unique paths enumerate_paths returns never exceeds MAX_PATHS
C1_PathCountBounded == Enumerated => Len(enum.paths) <= MAX_PATHS

\* C2: in every returned path an ActionId occurs at most MAX_LOOP_ITERATIONS times
C2_NodeVisitsBounded ==
    Enumerated =>
        \A p \in PathSet : \A k \in 1..Len(p) : CountIn(p, p[k]) <= MAX_LOOP_ITERATIONS

\* the next actions of all enumerated paths that start with prefix and go on
NextActions(prefix) ==
    { p[Len(prefix) + 1] :
        p \in {q \in PathSet : Len(q) > Len(prefix) /\ SubSeq(q, 1, Len(prefix)) = prefix} }

\* C3: available_next of every execution state is exactly the set of next
\* actions of all enumerated paths that extend the state's prefix
C3_AvailableNextIsUnion ==
    "states" \in pc =>
        \A k \in 1..Len(execution_states) :
            Range(execution_states[k].available_next)
                = NextActions(execution_states[k].completed_actions)

KnownRefs == ActionIds \cup GatewayIds \cup {StartSentinel}

\* C4: every predecessor, successor, incoming_from and branch next is a known
\* ActionId, a known GatewayId, "start" or (branches only) null
C4_ReferentialClosure ==
    {"actions", "gateways"} \subseteq pc =>
        /\ \A k \in 1..Len(actions) :
              /\ Range(actions[k].predecessors) \subseteq KnownRefs
              /\ Range(actions[k].successors) \subseteq KnownRefs
        /\ \A k \in 1..Len(gateways) :
              /\ Range(gateways[k].incoming_from) \subseteq KnownRefs
              /\ \A b \in 1..Len(gateways[k].branches) :
                    gateways[k].branches[b].next \in KnownRefs \cup {NoneVal}

\* C5: path enumeration completes with a result and raises no error
C5_NoErrorRaised == "paths" \in pc => ~enum.raised

\* C6: distinct nodes get distinct ActionIds, distinct gateways distinct GatewayIds
C6_IdsDistinct ==
    /\ "ids" \in pc =>
          \A r1, r2 \in DOMAIN rid_to_id : r1 # r2 => rid_to_id[r1] # rid_to_id[r2]
    /\ "gateways" \in pc =>
          \A i, j \in 1..Len(gateways) : i # j => gateways[i].id # gateways[j].id

\* nodes with texts 'X', 'X 2', 'X' were given the ids x, x_2, x_3
C6_Witness ==
    /\ "ids" \in pc
    /\ Len(nodes) >= 4
    /\ nodes[2].NodeText = <<"X">> /\ rid_to_id[nodes[2].resourceId] = <<"x">>
    /\ nodes[3].NodeText = <<"X", " ", "2">>
    /\ rid_to_id[nodes[3].resourceId] = <<"x", "_", "2">>
    /\ nodes[4].NodeText = <<"X">> /\ rid_to_id[nodes[4].resourceId] = <<"x", "_", "3">>

\* the nodes reachable from S along edges, never entering a node of banned
RECURSIVE ReachClosure(_, _)
ReachClosure(S, banned) ==
    LET more == (S \cup UNION {Range(Targets(outgoing, r)) : r \in S}) \ banned
    IN  IF more = S THEN S ELSE ReachClosure(more, banned)

\* breadth-first order, layer by layer, edges in edge order
RECURSIVE BfsOrder(_, _)
BfsOrder(layer, order) ==
    IF layer = <<>> THEN order
    ELSE LET sofar == order \o layer
             Fresh(r) == r \notin Range(sofar)
             succ == Concat([k \in 1..Len(layer) |-> Targets(outgoing, layer[k])])
         IN  BfsOrder(Dedup(SelectSeq(succ, Fresh), <<>>), sofar)

FirstOf(order, S) ==
    IF \E k \in 1..Len(order) : order[k] \in S
    THEN order[CHOOSE k \in 1..Len(order) :
                  order[k] \in S /\ \A j \in 1..(k - 1) : order[j] \notin S]
    ELSE NoneVal

BranchTargets(split_rid) == Dedup(Targets(outgoing, split_rid), <<>>)

\* C7, as claimed: for a split, find_matching_join returns the first node in
\* breadth-first order from the branch targets that is reachable from every
\* branch and has in-degree > 1, whatever its kind; none only if there is none
C7_FirstJoinOfAnyKind ==
    ("join" \in pc /\ is_split(join_query.split_rid, outgoing)) =>
        LET s == join_query.split_rid
            common == {n \in ReachClosure(Range(Targets(outgoing, s)), {}) :
                          \A t \in Range(Targets(outgoing, s)) : n \in ReachClosure({t}, {})}
            cands == {n \in common : is_join(n, incoming)}
        IN  join_query.join_rid = FirstOf(BfsOrder(BranchTargets(s), <<>>), cands)

\* C7, amended: for a split, find_matching_join returns the first node in
\* breadth-first order from the branch targets that is reachable from every
\* branch without entering the split, has in-degree > 1 and is a gateway
\* (exclusive, parallel or inclusive, whatever the split's kind); none only if
\* there is no such node
C7_FirstJoinGateway ==
    ("join" \in pc /\ is_split(join_query.split_rid, outgoing)) =>
        LET s == join_query.split_rid
            common == {n \in ReachClosure(Range(Targets(outgoing, s)) \ {s}, {s}) :
                          \A t \in Range(Targets(outgoing, s)) :
                              n \in ReachClosure({t} \ {s}, {s})}
            cands == {n \in common : is_join(n, incoming) /\ Type(n) \in GATEWAY_TYPES}
        IN  join_query.join_rid = FirstOf(BfsOrder(BranchTargets(s), <<>>), cands)

\* a parallel split was matched with a join that is an exclusive gateway
C7_Witness ==
    /\ "join" \in pc
    /\ is_split(join_query.split_rid, outgoing)
    /\ Type(join_query.split_rid) = "AND"
    /\ join_query.join_rid # NoneVal
    /\ Type(join_query.join_rid) = "XOR"

\* C8: when a parallel or inclusive split has a matched join, the traversal of
\* each of its branches halts at the join: no collected sub-path comes from a
\* traversal that went through the join
C8_BranchesHaltAtJoin ==
    "paths" \in pc => \A e \in enum.log : e.ev = "sub" => ~e.passed

\* the nodes reached from S through nodes that add no action and end no path
RECURSIVE SilentClosure(_)
SilentClosure(S) ==
    LET through == {r \in S : /\ NodeGet(nodes, r) # NoNode
                              /\ r \notin DOMAIN rid_to_id
                              /\ Type(r) # "EndNode"}
        more == S \cup UNION {Range(Targets(outgoing, r)) : r \in through}
    IN  IF more = S THEN S ELSE SilentClosure(more)

\* a run that has just completed the node rid can terminate with no further action
CanEndAfter(rid) ==
    \E t \in SilentClosure(Range(Targets(outgoing, rid))) :
        Type(t) = "EndNode" /\ t \notin DOMAIN rid_to_id

NodeOfAction(id) == CHOOSE r \in DOMAIN rid_to_id : rid_to_id[r] = id

\* C9: no returned path ends at a node that still has outgoing edges: the node
\* of its last action is an End node, or has no outgoing edge, or leads to an
\* unlabeled End node without a further action (an empty path: some Start does)
C9_PathsEndAtTermination ==
    Enumerated =>
        \A p \in PathSet :
            IF p = <<>>
            THEN \E s \in Range(StartRids(nodes)) : CanEndAfter(s)
            ELSE LET last == NodeOfAction(p[Len(p)])
                 IN  \/ Type(last) = "EndNode"
                     \/ AdjGet(outgoing, last) = <<>>
                     \/ CanEndAfter(last)

AllRids ==
    NodeKeys(nodes) \cup {record.SequenceFlow[i].src : i \in 1..Len(record.SequenceFlow)}
                    \cup {record.SequenceFlow[i].tgt : i \in 1..Len(record.SequenceFlow)}

\* C10: along every chain of nested calls of the enumeration each node is
\* entered at most MAX_LOOP_ITERATIONS times, so the chain is no longer than
\* MAX_LOOP_ITERATIONS times the number of nodes
C10_RecursionBounded ==
    "paths" \in pc =>
        \A e \in enum.log :
            e.ev = "enter" =>
                /\ e.n <= MAX_LOOP_ITERATIONS
                /\ e.depth <= MAX_LOOP_ITERATIONS * Cardinality(AllRids)

\* a cycle led back to a parallel split, which was entered a second time
C10_Witness ==
    /\ "paths" \in pc
    /\ \E e \in enum.log :
          e.ev = "enter" /\ e.n = MAX_LOOP_ITERATIONS /\ Type(e.rid) = "AND"
             /\ is_split(e.rid, outgoing)

(***************************************************************************)
(* Split shapes.                                                           *)
(***************************************************************************)
\* the actions met from rid on along single edges, up to the node stop or the end
RECURSIVE ChainActions(_, _, _)
ChainActions(rid, stop, fuel) ==
    IF fuel = 0 \/ rid = stop \/ NodeGet(nodes, rid) = NoNode THEN <<>>
    ELSE LET own == IF rid \in DOMAIN rid_to_id THEN <<rid_to_id[rid]>> ELSE <<>>
             outs == Targets(outgoing, rid)
         IN  IF Type(rid) = "EndNode" \/ outs = <<>> THEN own
             ELSE own \o ChainActions(outs[1], stop, fuel - 1)

Splits == {r \in AllRids : is_split(r, outgoing)}

TheStart == StartRids(nodes)[1]

\* a labelled Activity entered from s only, with at most one outgoing edge
SingleAction(r, s) ==
    /\ Type(r) = "Activity" /\ r \in DOMAIN rid_to_id
    /\ Targets(incoming, r) = <<s>>
    /\ Len(Targets(outgoing, r)) <= 1

\* s is the only split of the record, reached from the only Start, of kind
\* type, with the two single-action branches a and b (a on the first edge),
\* neither of which leads back to s
TwoBranchSplit(s, a, b, type) ==
    /\ Len(StartRids(nodes)) = 1
    /\ Splits = {s}
    /\ Type(s) = type
    /\ s \in ReachClosure({TheStart}, {})
    /\ Targets(outgoing, s) = <<a, b>> /\ a # b
    /\ SingleAction(a, s) /\ SingleAction(b, s)
    /\ s \notin ReachClosure({a, b}, {})

\* the branches of s reconverge at the join gateway j, from which s is not reached
Diamond(s, a, b, j, type) ==
    /\ TwoBranchSplit(s, a, b, type)
    /\ Targets(outgoing, a) = <<j>> /\ Targets(outgoing, b) = <<j>>
    /\ Type(j) \in GATEWAY_TYPES
    /\ Range(Targets(incoming, j)) = {a, b}
    /\ s \notin ReachClosure({j}, {})

Before(s) == ChainActions(TheStart, s, Len(nodes) + 1)
After(j) == ChainActions(j, NoneVal, Len(nodes) + 1)

\* the record's only split, its two branch targets and the node after the first
OnlySplit == CHOOSE s \in Splits : TRUE
BranchA == Targets(outgoing, OnlySplit)[1]
BranchB == Targets(outgoing, OnlySplit)[2]
AfterA == Targets(outgoing, BranchA)[1]

\* the record is a two-branch split of kind type
IsTwoBranchSplit(type) ==
    /\ Cardinality(Splits) = 1
    /\ Len(Targets(outgoing, OnlySplit)) = 2
    /\ TwoBranchSplit(OnlySplit, BranchA, BranchB, type)

\* the record is a diamond of kind type
IsDiamond(type) ==
    /\ IsTwoBranchSplit(type)
    /\ Len(Targets(outgoing, BranchA)) = 1
    /\ Diamond(OnlySplit, BranchA, BranchB, AfterA, type)

\* C11: one parallel split with single-action branches A and B and a join
\* yields exactly two paths, A B and B A, each between the actions before the
\* split and the same continuation past the join
C11_ParallelTwoOrders ==
    ("paths" \in pc /\ IsDiamond("AND")) =>
        /\ ~enum.raised
        /\ enum.paths =
             << Before(OnlySplit) \o <<rid_to_id[BranchA], rid_to_id[BranchB]>> \o After(AfterA),
                Before(OnlySplit) \o <<rid_to_id[BranchB], rid_to_id[BranchA]>> \o After(AfterA) >>

\* a parallel diamond with a continuation past its join was enumerated
C11_Witness ==
    /\ "paths" \in pc
    /\ IsDiamond("AND")
    /\ After(AfterA) # <<>>
    /\ Len(enum.paths) = 2
    /\ enum.paths[2] =
         Before(OnlySplit) \o <<rid_to_id[BranchB], rid_to_id[BranchA]>> \o After(AfterA)

Has(p, id) == \E k \in 1..Len(p) : p[k] = id

\* C12: an inclusive split with single-action branches A (first edge) and B,
\* neither leading back to the split, yields exactly three paths: one with A and not B, one with B and not A, one
\* with both, and B never comes before A
C12_InclusiveSubsets ==
    ("paths" \in pc /\ IsTwoBranchSplit("OR")) =>
        LET A == rid_to_id[BranchA]
            B == rid_to_id[BranchB]
        IN  /\ ~enum.raised
            /\ Len(enum.paths) = 3
            /\ Cardinality({p \in PathSet : Has(p, A) /\ ~Has(p, B)}) = 1
            /\ Cardinality({p \in PathSet : Has(p, B) /\ ~Has(p, A)}) = 1
            /\ Cardinality({p \in PathSet : Has(p, A) /\ Has(p, B)}) = 1
            /\ \A p \in PathSet : \A i, k \in 1..Len(p) :
                  (p[i] = B /\ p[k] = A) => k < i

\* an inclusive split of two single actions was enumerated, its third path
\* taking both branches
C12_Witness ==
    /\ "paths" \in pc
    /\ IsTwoBranchSplit("OR")
    /\ Len(enum.paths) = 3
    /\ Has(enum.paths[3], rid_to_id[BranchA])
    /\ Has(enum.paths[3], rid_to_id[BranchB])

\* s is the only split of the record, an exclusive gateway reached from the only Start
OneExclusiveSplit ==
    /\ Len(StartRids(nodes)) = 1
    /\ Cardinality(Splits) = 1
    /\ Type(OnlySplit) = "XOR"
    /\ OnlySplit \in ReachClosure({TheStart}, {})

\* the element of p at position k, None past its end
At(p, k) == IF k <= Len(p) THEN p[k] ELSE NoneVal

\* the returned paths that start with the actions before the split
ThroughSplit ==
    {p \in PathSet : /\ Len(p) >= Len(Before(OnlySplit))
                     /\ SubSeq(p, 1, Len(Before(OnlySplit))) = Before(OnlySplit)}

BranchesStartWithActions ==
    /\ \A i \in 1..Len(Targets(outgoing, OnlySplit)) :
          /\ Targets(outgoing, OnlySplit)[i] \in DOMAIN rid_to_id
          /\ \A k \in 1..(i - 1) :
                Targets(outgoing, OnlySplit)[k] # Targets(outgoing, OnlySplit)[i]
    /\ \A i \in 1..Len(nodes) :
          nodes[i].type = "Activity" => nodes[i].resourceId \in DOMAIN rid_to_id

GatewayRid(k) == SelectSeq(nodes, IsGateway)[k].resourceId

TargetPresent(e) == NodeGet(nodes, e[1]) # NoNode

\* the outgoing edges of rid whose target is a node of the record
PresentEdges(rid) == SelectSeq(AdjGet(outgoing, rid), TargetPresent)

UnlabelledEnd(node) == node.type = "EndNode" /\ Strip(node.NodeText) = <<>>

LabelledEnd(node) == node.type = "EndNode" /\ Strip(node.NodeText) # <<>>

ActionKinds == {"Activity", "StartNode", "EndNode"}

\* as claimed: every Activity, and every Start or End node with non-empty text
ClaimedActionNode(node) ==
    node.type = "Activity" \/ (node.type \in {"StartNode", "EndNode"} /\ node.NodeText # <<>>)

\* a node of an action kind whose text is not blank
LabelledNode(node) == node.type \in ActionKinds /\ Strip(node.NodeText) # <<>>

InDegree(rid) == Len(AdjGet(incoming, rid))
OutDegree(rid) == Len(AdjGet(outgoing, rid))

\* the roles whose condition the degrees of rid satisfy
RolesFor(rid) ==
    {role \in {"split", "merge", "join_split", "pass_through"} :
        \/ role = "split" /\ InDegree(rid) <= 1 /\ OutDegree(rid) > 1
        \/ role = "merge" /\ InDegree(rid) > 1 /\ OutDegree(rid) <= 1
        \/ role = "join_split" /\ InDegree(rid) > 1 /\ OutDegree(rid) > 1
        \/ role = "pass_through" /\ InDegree(rid) <= 1 /\ OutDegree(rid) <= 1}

\* C17: the role of every gateway is the one role its in-degree and out-degree
\* determine: split (in <= 1, out > 1), merge (in > 1, out <= 1), join_split
\* (in > 1, out > 1), pass_through otherwise
C17_RoleFromDegrees ==
    "gateways" \in pc =>
        \A k \in 1..Len(gateways) : RolesFor(GatewayRid(k)) = {gateways[k].role}

\* gateways of the roles split, pass_through and join_split in one record
C17_Witness ==
    /\ "gateways" \in pc
    /\ \E i, j, k \in 1..Len(gateways) :
          /\ gateways[i].role = "split"
          /\ gateways[j].role = "pass_through"
          /\ gateways[k].role = "join_split"

(***************************************************************************)
(* Execution states.                                                       *)
(***************************************************************************)
\* C18: when some enumerated path has an action, there is a state with empty
\* completed_actions, and its available_next is the set of the first actions
\* of all enumerated paths
C18_EmptyPrefixFirstActions ==
    ("states" \in pc /\ \E p \in PathSet : p # <<>>) =>
        \E k \in 1..Len(execution_states) :
            /\ execution_states[k].completed_actions = <<>>
            /\ Range(execution_states[k].available_next)
                  = {p[1] : p \in {q \in PathSet : q # <<>>}}

CanTerminate(state) == "can_terminate" \in DOMAIN state /\ state.can_terminate

\* C19: a state has can_terminate exactly when some enumerated path equals
\* its completed_actions
C19_CanTerminateIffPathEnds ==
    "states" \in pc =>
        \A k \in 1..Len(execution_states) :
            CanTerminate(execution_states[k])
                <=> execution_states[k].completed_actions \in PathSet

RelationNames ==
    {"action_successors", "action_predecessors", "gateway_branches_next",
     "gateway_incoming", "branch_tuples"}

\* C21: for every record the relation sets the validator rebuilds from the
\* raw record equal the ones read from the extracted actions and gateways, so
\* no element is missing and none is extra
C21_GroundTruthEqualsExtracted ==
    "validated" \in pc =>
        \A name \in RelationNames :
            /\ metrics[name].gt = metrics[name].ext
            /\ metrics[name].missing = {}
            /\ metrics[name].extra = {}

(***************************************************************************)
(* Links of actions and gateways.                                          *)
(***************************************************************************)
\* the node of the k-th action of the output
ActionRid(k) == SelectSeq(nodes, LabelledNode)[k].resourceId

\* the references the incoming (outgoing) edges of an action give, edge by edge
PredecessorRefs(rid) ==
    Concat([k \in 1..InDegree(rid) |->
               PredecessorRef(nodes, rid_to_id, AdjGet(incoming, rid)[k][1])])
SuccessorRefs(rid) ==
    Concat([k \in 1..OutDegree(rid) |->
               SuccessorRef(nodes, rid_to_id, AdjGet(outgoing, rid)[k][1])])
IncomingRefs(rid) ==
    Concat([k \in 1..InDegree(rid) |->
               IncomingRef(nodes, rid_to_id, AdjGet(incoming, rid)[k][1])])

FirstIndex(seq, x) == CHOOSE i \in 1..Len(seq) : seq[i] = x /\ \A j \in 1..(i - 1) : seq[j] # x

\* list holds every value of refs, in the order the values first occur in
\* refs: each value later in refs than the one before it, hence none twice
FirstSeenOrder(list, refs) ==
    /\ Range(list) = Range(refs)
    /\ \A i \in 1..(Len(list) - 1) :
          FirstIndex(refs, list[i]) < FirstIndex(refs, list[i + 1])

\* C22: predecessors and successors of every action, and incoming_from of
\* every gateway, hold no value twice and keep the first-seen order of the
\* edges, also when several edges join the node to the same neighbour
C22_LinksDedupedInEdgeOrder ==
    /\ "actions" \in pc =>
          \A k \in 1..Len(actions) :
              /\ FirstSeenOrder(actions[k].predecessors, PredecessorRefs(ActionRid(k)))
              /\ FirstSeenOrder(actions[k].successors, SuccessorRefs(ActionRid(k)))
    /\ "gateways" \in pc =>
          \A k \in 1..Len(gateways) :
              FirstSeenOrder(gateways[k].incoming_from, IncomingRefs(GatewayRid(k)))

\* an action entered by edges from a, from b and from a again lists a and b
\* once each, and the action a, with two edges to it, lists it once
C22_Witness ==
    /\ "gateways" \in pc
    /\ \E k \in 1..Len(actions) :
          LET refs == PredecessorRefs(ActionRid(k))
          IN  /\ Len(refs) = 3 /\ refs[1] # refs[2] /\ refs[3] = refs[1]
              /\ actions[k].predecessors = <<refs[1], refs[2]>>
    /\ \E k \in 1..Len(actions) :
          LET refs == SuccessorRefs(ActionRid(k))
          IN  /\ Len(refs) = 2 /\ refs[1] = refs[2]
              /\ actions[k].successors = <<refs[1]>>

UnlabelledStart(node) == node.type = "StartNode" /\ Strip(node.NodeText) = <<>>

\* the edges of rid whose other end is a node for which Is holds
EdgesWith(adj, rid, Is(_)) ==
    {k \in 1..Len(AdjGet(adj, rid)) : Is(NodeGet(nodes, AdjGet(adj, rid)[k][1]))}

\* C23: the predecessors of an action contain "start" exactly when an edge
\* enters it from a Start node without text; an edge to an End node without
\* text adds nothing to its successors; no successors list contains "start"
C23_StartSentinelOnlyForStart ==
    "actions" \in pc =>
        \A k \in 1..Len(actions) :
            /\ StartSentinel \in Range(actions[k].predecessors)
                  <=> EdgesWith(incoming, ActionRid(k), UnlabelledStart) # {}
            /\ Len(actions[k].successors)
                  <= OutDegree(ActionRid(k))
                       - Cardinality(EdgesWith(outgoing, ActionRid(k), UnlabelledEnd))
            /\ StartSentinel \notin Range(actions[k].successors)

(***************************************************************************)
(* Unique paths.                                                           *)
(***************************************************************************)
\* enumerate_paths has just returned its list (which no later step changes)
PathsReturned == Enumerated /\ "states" \notin pc

\* C24: the list enumerate_paths returns holds no path twice, holds every
\* path the traversals from the Start nodes produced, and orders the paths by
\* their first occurrence in the traversals of the Start nodes, in their order
C24_UniquePathsFirstSeen ==
    PathsReturned => FirstSeenOrder(enum.paths, enum.all_execution_paths)

\* the second Start node produced a path the first had produced and then a
\* new one, which comes last in the result
C24_Witness ==
    /\ PathsReturned
    /\ Len(StartRids(nodes)) = 2
    /\ Len(enum.all_execution_paths) = 3
    /\ enum.all_execution_paths[2] = enum.all_execution_paths[1]
    /\ enum.paths = <<enum.all_execution_paths[1], enum.all_execution_paths[3]>>
    /\ enum.all_execution_paths[3] # enum.all_execution_paths[1]

(***************************************************************************)
(* Identifiers.                                                            *)
(***************************************************************************)
\* the ids given to the labelled nodes before the k-th one
SeenBefore(k) == {rid_to_id[ActionRid(j)] : j \in 1..(k - 1)}

Suffixed(base, n) == base \o <<"_">> \o Dec(n)

OrderDrink == <<"o", "r", "d", "e", "r", "_", "d", "r", "i", "n", "k">>

\* C25: make_action_id returns the base slug when it is not yet seen, and
\* otherwise base_k for the smallest k >= 2 such that base_k is not seen; the
\* id returned counts as seen for the nodes that follow
C25_SmallestFreeSuffix ==
    "ids" \in pc =>
        \A k \in 1..Len(SelectSeq(nodes, LabelledNode)) :
            LET base == Slug(NodeGet(nodes, ActionRid(k)).NodeText)
                id == rid_to_id[ActionRid(k)]
            IN  IF base \notin SeenBefore(k) THEN id = base
                ELSE \E n \in 2..(k + 1) :
                        /\ id = Suffixed(base, n)
                        /\ id \notin SeenBefore(k)
                        /\ \A m \in 2..(n - 1) : Suffixed(base, m) \in SeenBefore(k)

\* two nodes with the text 'Order Drink' got order_drink and order_drink_2
C25_Witness ==
    /\ "ids" \in pc
    /\ \E i, j \in 1..Len(nodes) :
          /\ i < j
          /\ nodes[i].NodeText = nodes[j].NodeText
          /\ Slug(nodes[i].NodeText) = OrderDrink
          /\ rid_to_id[nodes[i].resourceId] = OrderDrink
          /\ rid_to_id[nodes[j].resourceId] = OrderDrink \o <<"_", "2">>

(***************************************************************************)
(* Parallel splits.                                                        *)
(***************************************************************************)
\* the entries of the log for parallel gateways with several outgoing edges
ParallelSplits ==
    {e \in enum.log : e.ev = "split" /\ Type(e.split) = "AND" /\ is_split(e.split, outgoing)}

\* the orders of the indices 1..n
Orders(n) == {f \in [1..n -> 1..n] : \A i, j \in 1..n : i # j => f[i] # f[j]}

\* seqs concatenated in the order f
InOrder(seqs, f) == Concat([k \in 1..Len(seqs) |-> seqs[f[k]]])

MaxOf(S) == IF S = {} THEN 0 ELSE CHOOSE n \in S : \A m \in S : m <= n

\* one position per branch in its list of sub-paths
IndexChoices(branch_paths) ==
    {c \in [1..Len(branch_paths) ->
                1..MaxOf({Len(branch_paths[i]) : i \in 1..Len(branch_paths)})] :
        \A i \in 1..Len(branch_paths) : c[i] <= Len(branch_paths[i])}

\* the sub-paths at the positions c, one per branch
Picked(branch_paths, c) == [i \in 1..Len(branch_paths) |-> branch_paths[i][c[i]]]

\* C26: a parallel split without matching join runs its branches with no stop
\* set (to completion), and every path it yields is the path so far followed
\* by one sub-path per branch, concatenated in some order of the branches,
\* with nothing after them
C26_UnmatchedSplitTerminates ==
    PathsReturned =>
        \A e \in ParallelSplits :
            e.join = NoneVal =>
                /\ e.stop = {}
                /\ \A k \in 1..Len(e.yields) :
                      \E c \in IndexChoices(e.branch_paths) :
                          \E f \in Orders(Len(c)) :
                              e.yields[k] = e.base \o InOrder(Picked(e.branch_paths, c), f)

\* a parallel split without join, behind an action, yielded its two branch
\* actions in both orders and nothing else
C26_Witness ==
    /\ PathsReturned
    /\ \E e \in ParallelSplits :
          /\ e.join = NoneVal
          /\ e.base # <<>>
          /\ Len(e.branch_paths) = 2
          /\ Len(e.yields) = 2
          /\ \E x, y \in ActionIds :
                /\ x # y
                /\ e.yields = <<e.base \o <<x, y>>, e.base \o <<y, x>>>>
                /\ enum.paths = e.yields

\* every entry of the log for a parallel gateway that took the split path
ParallelEntries == {e \in enum.log : e.ev = "split" /\ Type(e.split) = "AND"}

\* the interleavings logged for the split of the entry e
InterleavingsOf(e) ==
    {x \in enum.log : x.ev = "interleave" /\ x.split = e.split /\ x.base = e.base}

HasActions(p) == Len(p) > 0

\* the chosen sub-paths that are not empty, in branch order
Chosen(branch_paths, c) == SelectSeq(Picked(branch_paths, c), HasActions)

\* the split of the entry e was not cut short by MAX_PATHS
Uncapped(e) ==
    /\ Len(e.yields) < MAX_PATHS
    /\ Cardinality(IndexChoices(e.branch_paths)) <= MAX_PATHS

\* the combinations of the entry e, each with an order of its non-empty sub-paths
Interleavings(e) ==
    UNION { { <<c, f>> : f \in Orders(Len(Chosen(e.branch_paths, c))) } :
            c \in IndexChoices(e.branch_paths) }

\* C27: at a parallel split an empty sub-path adds nothing and removes no
\* combination: for every choice of one sub-path per branch the split goes on,
\* from its join if it has one, with the path so far followed by the non-empty
\* chosen sub-paths in every order, and with the unchanged path so far when
\* all of them are empty; it goes on with nothing else
C27_EmptySubPathsContributeNothing ==
    PathsReturned =>
        \A e \in ParallelEntries :
            Uncapped(e) =>
                /\ \A c \in IndexChoices(e.branch_paths) :
                      LET seqs == Chosen(e.branch_paths, c)
                      IN  \A f \in Orders(Len(seqs)) :
                              \E x \in InterleavingsOf(e) :
                                  /\ x.join = e.join
                                  /\ x.seqs = seqs
                                  /\ x.path = e.base \o InOrder(seqs, f)
                /\ \A x \in InterleavingsOf(e) :
                      \E d \in ParallelEntries :
                          /\ d.split = e.split /\ d.base = e.base
                          /\ \E c \in IndexChoices(d.branch_paths) :
                                /\ x.seqs = Chosen(d.branch_paths, c)
                                /\ \E f \in Orders(Len(x.seqs)) :
                                      x.path = d.base \o InOrder(x.seqs, f)
                /\ e.join = NoneVal =>
                      Len(e.yields) = Cardinality(Interleavings(e))

\* a parallel split with an action on one branch and an empty sub-path on the
\* other went on from its join with the path so far and that one action
C27_Witness ==
    /\ PathsReturned
    /\ \E e \in ParallelEntries :
          /\ Len(e.branch_paths) = 2
          /\ e.base # <<>>
          /\ e.join # NoneVal
          /\ e.branch_paths[2] = << <<>> >>
          /\ Len(e.branch_paths[1]) = 1 /\ Len(e.branch_paths[1][1]) = 1
          /\ {x.path : x \in InterleavingsOf(e)} = {e.base \o e.branch_paths[1][1]}
          /\ Len(e.yields) = 1
          /\ Len(e.yields[1]) > Len(e.base) + 1

\* C28: the namespaces of one record are disjoint: no ActionId is the
\* GatewayId of a gateway of the record, and none is the sentinel "start"
C28_NamespacesDisjoint ==
    "ids" \in pc =>
        /\ ActionIds \cap GatewayIds = {}
        /\ StartSentinel \notin ActionIds

\* the node rid has an action or a gateway in the output
Linked(rid) == LabelledNode(NodeGet(nodes, rid)) \/ IsGateway(NodeGet(nodes, rid))

\* the id under which the output refers to the node rid
RefOf(rid) ==
    IF IsGateway(NodeGet(nodes, rid)) THEN make_gateway_id(nodes, rid, NodeGet(nodes, rid))
    ELSE rid_to_id[rid]

ActionAt(rid) == actions[CHOOSE k \in 1..Len(actions) : ActionRid(k) = rid]
GatewayAt(rid) == gateways[CHOOSE k \in 1..Len(gateways) : GatewayRid(k) = rid]

\* what the output of the node rid lists as coming next, and as coming before
OutRefs(rid) ==
    IF IsGateway(NodeGet(nodes, rid))
    THEN {GatewayAt(rid).branches[b].next : b \in 1..Len(GatewayAt(rid).branches)}
    ELSE Range(ActionAt(rid).successors)
InRefs(rid) ==
    IF IsGateway(NodeGet(nodes, rid))
    THEN Range(GatewayAt(rid).incoming_from)
    ELSE Range(ActionAt(rid).predecessors)

\* the edges between two nodes that each have an action or a gateway
LinkedEdges ==
    {e \in Range(record.SequenceFlow) : Linked(e.src) /\ Linked(e.tgt)}

\* C29: the links are symmetric: for every edge between two nodes that each
\* are an action or a gateway, the source lists the target (in successors or
\* as the next of a branch) exactly when the target lists the source (in
\* predecessors or incoming_from)
C29_LinksSymmetric ==
    {"actions", "gateways"} \subseteq pc =>
        \A e \in LinkedEdges :
            RefOf(e.tgt) \in OutRefs(e.src) <=> RefOf(e.src) \in InRefs(e.tgt)

\* edges from action to action, action to gateway, gateway to action and
\* gateway to gateway are each listed at both ends
C29_Witness ==
    /\ {"actions", "gateways"} \subseteq pc
    /\ \A from, to \in BOOLEAN :
          \E e \in LinkedEdges :
              /\ IsGateway(NodeGet(nodes, e.src)) = from
              /\ IsGateway(NodeGet(nodes, e.tgt)) = to
              /\ RefOf(e.tgt) \in OutRefs(e.src)
              /\ RefOf(e.src) \in InRefs(e.tgt)

\* the states whose completed_actions is p
StatesAt(p) == {k \in 1..Len(execution_states) : execution_states[k].completed_actions = p}

\* C30: the execution states have unique keys and are prefix-closed: no two
\* states share their completed_actions; for every state with a non-empty
\* prefix p there is a state for p without its last element, whose
\* available_next contains that element; and a state without can_terminate
\* has a non-empty available_next
C30_StatesPrefixClosed ==
    "states" \in pc =>
        \A k \in 1..Len(execution_states) :
            LET p == execution_states[k].completed_actions
            IN  /\ StatesAt(p) = {k}
                /\ p # <<>> =>
                      \E j \in StatesAt(SubSeq(p, 1, Len(p) - 1)) :
                          p[Len(p)] \in Range(execution_states[j].available_next)
                /\ ~CanTerminate(execution_states[k]) =>
                      execution_states[k].available_next # <<>>
=============================================================================
